---- MODULE Spec2Model ----
(***************************************************************************)
(* Model of the invite bot in src/bot.py: the /start handler               *)
(* (start_command), the chat-member handler (chat_member_update) and the   *)
(* sqlite helpers they call.  Strings are sequences of one-character       *)
(* strings, so that the token name built with an f-string and taken apart  *)
(* with str.split / int() is really built and really parsed.  The clock    *)
(* counts seconds; second 0 is Monday 2025-12-22 00:00:00 UTC, the first   *)
(* instant of ISO week 52 of ISO year 2025.                                *)
(***************************************************************************)
EXTENDS Integers, Sequences, FiniteSets, TLC

\* ---------------------------------------------------------------- config
INVITE_EXPIRE_SECONDS == 3600
WEEKLY_INVITE_LIMIT == 2

\* ---------------------------------------------------------------- bounds
\* /start updates in one behaviour of Spec.
MaxRequests == 3
\* /start updates in one behaviour of SpecWeek.
MaxWeekRequests == 3
\* /start updates in one behaviour of SpecJoin.
MaxJoinRequests == 1
\* Clock advances in one behaviour.
MaxTicks == 2
\* The small user ids run from 1 to MaxUserId.
MaxUserId == 12

SecondsPerDay == 24 * 3600
SecondsPerWeek == 7 * SecondsPerDay
\* The steps the clock takes: just past a link's lifetime, and six days.
HourJump == INVITE_EXPIRE_SECONDS + 1
DaysJump == 6 * SecondsPerDay

\* The handler coroutines that run at a time.
Handlers == {"h1", "h2"}
\* Telegram user ids (positive integers): the small ones, and some of more
\* digits, with zeros inside and at the end.
UserIds == (1..MaxUserId) \cup {100, 10203, 2147483647}
\* The users whose requests Spec interleaves.
Requesters == {7, 12}
\* uuid4().hex[:8]: eight hexadecimal digits; two values, so that two draws
\* can differ and can collide.
Tokens == { <<"0","a","1","b","2","c","3","d">>, <<"f","f","0","0","9","e","4","4">> }
\* ChatMember.status values of the Bot API.
Statuses == {"creator", "administrator", "member", "restricted", "left", "kicked"}

\* ---------------------------------------------------------------- strings
Digits == <<"0","1","2","3","4","5","6","7","8","9">>

RECURSIVE NatStr(_)
NatStr(n) == IF n < 10 THEN <<Digits[n + 1]>>
             ELSE NatStr(n \div 10) \o <<Digits[(n % 10) + 1]>>

\* str(n) of a Python int, as the f-string formats user.id.
PyStr(n) == IF n < 0 THEN <<"-">> \o NatStr(-n) ELSE NatStr(n)

\* s.startswith(p)
StartsWith(s, p) == Len(s) >= Len(p) /\ SubSeq(s, 1, Len(p)) = p

\* s.split(sep) for a one-character separator: the fields between the
\* separators, empty fields kept.
RECURSIVE PySplit(_, _)
PySplit(s, sep) ==
    IF \A i \in 1..Len(s) : s[i] # sep THEN <<s>>
    ELSE LET k == CHOOSE i \in 1..Len(s) :
                      s[i] = sep /\ \A j \in 1..(i - 1) : s[j] # sep
         IN <<SubSeq(s, 1, k - 1)>> \o PySplit(SubSeq(s, k + 1, Len(s)), sep)

DigitVal(c) == CHOOSE d \in 0..9 : Digits[d + 1] = c
IsDigit(c) == \E d \in 0..9 : Digits[d + 1] = c

RECURSIVE PyStrip(_)
PyStrip(s) == IF s # <<>> /\ s[1] = " " THEN PyStrip(Tail(s))
              ELSE IF s # <<>> /\ s[Len(s)] = " " THEN PyStrip(SubSeq(s, 1, Len(s) - 1))
              ELSE s

RECURSIVE DigitsVal(_, _)
DigitsVal(s, acc) == IF s = <<>> THEN acc
                     ELSE IF s[1] = "_" THEN DigitsVal(Tail(s), acc)
                     ELSE DigitsVal(Tail(s), 10 * acc + DigitVal(s[1]))

\* The digit part int() accepts: digits, with single underscores between digits.
DigitsOk(s) == /\ s # <<>>
               /\ IsDigit(s[1]) /\ IsDigit(s[Len(s)])
               /\ \A i \in 1..Len(s) : IsDigit(s[i]) \/ s[i] = "_"
               /\ \A i \in 1..(Len(s) - 1) : ~(s[i] = "_" /\ s[i + 1] = "_")

\* int(s, 36): the letters count as digits too.
PyIntBase36(s) ==
    LET Alnum == Digits \o <<"a","b","c","d","e","f","g","h","i","j","k","l","m",
                             "n","o","p","q","r","s","t","u","v","w","x","y","z">>
        Val(c) == (CHOOSE k \in 1..36 : Alnum[k] = c) - 1
        Sum[i \in 0..Len(s)] == IF i = 0 THEN 0 ELSE 36 * Sum[i - 1] + Val(s[i])
    IN IF s # <<>> /\ \A i \in 1..Len(s) : \E k \in 1..36 : Alnum[k] = s[i]
       THEN [ok |-> TRUE, val |-> Sum[Len(s)]]
       ELSE [ok |-> FALSE, val |-> 0]

\* int(s): surrounding blanks stripped, an optional sign, then the digits.
\* [ok |-> FALSE] stands for ValueError.
PyInt(s) ==
    LET t == PyStrip(s)
        signed == t # <<>> /\ t[1] \in {"+", "-"}
        body == IF signed THEN Tail(t) ELSE t
    IN IF DigitsOk(body)
       THEN [ok |-> TRUE,
             val |-> IF signed /\ t[1] = "-" THEN -DigitsVal(body, 0)
                     ELSE DigitsVal(body, 0)]
       ELSE [ok |-> FALSE, val |-> 0]

\* ---------------------------------------------------------------- codec
\* The name with its fields in the other order: "ref:<token>:<user.id>".
InviteNameTokenFirst(uid, token) == <<"r","e","f",":">> \o token \o <<":">> \o PyStr(uid)

\* start_command: invite_name = f"ref:{user.id}:{token}"
InviteName(uid, token) == <<"r","e","f",":">> \o PyStr(uid) \o <<":">> \o token

\* chat_member_update: the referrer parsed from an invite link's name;
\* 0 stands for None (both are falsy where referrer_info is tested).
ParseReferrer(name) ==
    IF StartsWith(name, <<"r","e","f",":">>)
    THEN LET parts == PySplit(name, ":")
         IN IF Len(parts) < 2 THEN 0
            ELSE IF PyInt(parts[2]).ok THEN PyInt(parts[2]).val ELSE 0
    ELSE 0

\* ---------------------------------------------------------------- clock
\* datetime.utcnow().isocalendar()[:2] at second t.  Week 52 of 2025 is the
\* last ISO week of 2025; the weeks after it are weeks 1, 2, ... of 2026.
IsoYearWeek(t) == LET w == t \div SecondsPerWeek
                  IN IF w = 0 THEN <<2025, 52>> ELSE <<2026, w>>

\* ---------------------------------------------------------------- state
VARIABLES
    now,            \* the wall clock, in seconds
    ticks,          \* clock advances so far
    requests,       \* /start updates so far
    invite_counts,  \* table invite_counts: <<user_id, year, week>> -> count
    used_invites,   \* table used_invites: invite_name -> [referrer_id, created_at]
    pc,             \* per handler: the call start_command is awaiting
    user,           \* per handler: update.effective_user.id
    count,          \* per handler: the local count
    invite_name,    \* per handler: the local invite_name
    provider_calls, \* per handler: create_chat_invite_link calls this request has made
    wrote,          \* per handler: the tables this request has written
    fails_gate,     \* per handler: whether the status get_chat_member answered is no membership
    last,           \* the request that ended last: how and where it ended, what it had done
    issue_log,      \* per user: the times at which increment_invite_count recorded an issuance
    jpc,            \* the call chat_member_update is awaiting
    last_join,      \* the chat-member update handled last (or being handled): what chat_member_update did with it
    attributed      \* the invite names that an announcement sent so far has named a referrer for

vars == <<now, ticks, requests, invite_counts, used_invites, pc, user, count, invite_name,
          provider_calls, wrote, fails_gate, last, issue_log,
          jpc, last_join, attributed>>

stores == <<invite_counts, used_invites, issue_log>>
joins == <<jpc, last_join, attributed>>
clock == <<now, ticks>>
handler_state == <<pc, user, count, invite_name, provider_calls, wrote, fails_gate>>

NoName == <<>>
NoRequest == [outcome |-> "none", at |-> "none", fails_gate |-> FALSE, raised |-> FALSE,
              provider_calls |-> 0, wrote |-> {}]
InFlight(h) == pc[h] # "idle"

\* ---------------------------------------------------------------- sqlite helpers
\* A week key that never rolls over.
current_year_week_frozen == <<2025, 52>>

\* current_year_week()
current_year_week == IsoYearWeek(now)

QuotaKey(uid) == <<uid, current_year_week[1], current_year_week[2]>>

\* get_invite_count(user_id): the row of the current ISO week, or 0.
get_invite_count(uid) ==
    IF QuotaKey(uid) \in DOMAIN invite_counts THEN invite_counts[QuotaKey(uid)] ELSE 0

\* An upsert that replaces the row with count 1 instead of adding to it.
increment_invite_count_replace(uid) ==
    [k \in DOMAIN invite_counts \cup {QuotaKey(uid)} |->
        IF k = QuotaKey(uid) THEN 1 ELSE invite_counts[k]]

\* increment_invite_count(user_id): the table after the upsert.
increment_invite_count(uid) ==
    IF QuotaKey(uid) \in DOMAIN invite_counts
    THEN [invite_counts EXCEPT ![QuotaKey(uid)] = @ + 1]
    ELSE [k \in DOMAIN invite_counts \cup {QuotaKey(uid)} |->
             IF k = QuotaKey(uid) THEN 1 ELSE invite_counts[k]]

\* register_invite_name(invite_name, referrer_id): the table after
\* INSERT OR REPLACE.
register_invite_name(name, referrer) ==
    [n \in DOMAIN used_invites \cup {name} |->
        IF n = name THEN [referrer_id |-> referrer, created_at |-> now]
        ELSE used_invites[n]]

\* get_referrer_by_invite(invite_name); 0 stands for None.
get_referrer_by_invite(name) ==
    IF name \notin DOMAIN used_invites THEN 0 ELSE used_invites[name].referrer_id

\* ---------------------------------------------------------------- start_command
\* A test that lets a restricted user through.
IsMemberOrRestricted(status) ==
    status \in {"member", "creator", "administrator", "restricted"}

\* member.status not in ("member", "creator", "administrator") is the denial.
IsMember(status) == status \in {"member", "creator", "administrator"}

\* The membership precondition of a request, said of the answered status.
FailsMembership(status) == status \notin {"member", "creator", "administrator"}

\* A limit test that is off by one.
QuotaReachedAbove(c) == c > WEEKLY_INVITE_LIMIT

\* count >= WEEKLY_INVITE_LIMIT
QuotaReached(c) == c >= WEEKLY_INVITE_LIMIT

\* The handler returns (or an exception leaves it) at the call `at`: its frame
\* is gone, and what the request did is kept in last.
\* raised: whether get_chat_member raised for it.
FinishWith(h, how, at, gate, raised) ==
    /\ last' = [outcome |-> how, at |-> at, fails_gate |-> gate, raised |-> raised,
                provider_calls |-> provider_calls[h], wrote |-> wrote[h]]
    /\ pc' = [pc EXCEPT ![h] = "idle"]
    /\ user' = [user EXCEPT ![h] = 0]
    /\ count' = [count EXCEPT ![h] = 0]
    /\ invite_name' = [invite_name EXCEPT ![h] = NoName]
    /\ provider_calls' = [provider_calls EXCEPT ![h] = 0]
    /\ wrote' = [wrote EXCEPT ![h] = {}]
    /\ fails_gate' = [fails_gate EXCEPT ![h] = FALSE]

Finish(h, how, at, gate) == FinishWith(h, how, at, gate, FALSE)

\* What reply_text has sent the requester when a request ends in `how`: the
\* link, a denial (not a member, weekly limit), a failure message (membership
\* check, link creation), or nothing (the handler returned at the chat type
\* test, or an exception or a cancellation left it).
Reply(how) ==
    CASE how = "issued" -> "link"
      [] how \in {"not_member", "quota_exceeded"} -> "denied"
      [] how \in {"membership_error", "provider_failed"} -> "failed"
      [] OTHER -> "none"

\* The coroutine a new update runs in: the first one that is free.
Free(h) == /\ pc[h] = "idle"
           /\ h = "h1" \/ pc["h1"] # "idle"

\* A handler that takes a raise of get_chat_member for the status of a user
\* who has left.
StartCommandOnRaiseAsLeft(h, uid, chat_type, answer, limit, may_overlap) ==
    /\ Free(h)
    /\ requests < limit
    /\ requests' = requests + 1
    /\ may_overlap \/ (jpc = "idle" /\ \A g \in Handlers : ~InFlight(g))
    /\ IF chat_type # "private"
       THEN Finish(h, "ignored", "start", FALSE)
       ELSE IF answer = "raises"
       THEN FinishWith(h, "not_member", "get_chat_member", FALSE, TRUE)
       ELSE IF ~IsMember(answer)
       THEN Finish(h, "not_member", "get_chat_member", FailsMembership(answer))
       ELSE /\ pc' = [pc EXCEPT ![h] = "get_invite_count"]
            /\ user' = [user EXCEPT ![h] = uid]
            /\ fails_gate' = [fails_gate EXCEPT ![h] = FailsMembership(answer)]
            /\ UNCHANGED <<count, invite_name, provider_calls, wrote, last>>
    /\ UNCHANGED <<stores, clock, joins>>

\* A /start update of user uid arrives in a chat of type chat_type, and
\* get_chat_member answers `answer` (a status, or "raises").  Outside a
\* private chat the handler returns at once; a raise gets the error reply; a
\* status that is no membership gets the not-a-member reply; a member goes on
\* to the quota.  get_chat_member reads and writes nothing of the bot, so its
\* await is not a step of its own.
\* limit: the updates of one behaviour; may_overlap: whether the dispatcher
\* starts an update while another is being handled.
StartCommandOn(h, uid, chat_type, answer, limit, may_overlap) ==
    /\ Free(h)
    /\ requests < limit
    /\ requests' = requests + 1
    /\ may_overlap \/ (jpc = "idle" /\ \A g \in Handlers : ~InFlight(g))
    /\ IF chat_type # "private"
       THEN Finish(h, "ignored", "start", FALSE)
       ELSE IF answer = "raises"
       THEN FinishWith(h, "membership_error", "get_chat_member", FALSE, TRUE)
       ELSE IF ~IsMember(answer)
       THEN Finish(h, "not_member", "get_chat_member", FailsMembership(answer))
       ELSE /\ pc' = [pc EXCEPT ![h] = "get_invite_count"]
            /\ user' = [user EXCEPT ![h] = uid]
            /\ fails_gate' = [fails_gate EXCEPT ![h] = FailsMembership(answer)]
            /\ UNCHANGED <<count, invite_name, provider_calls, wrote, last>>
    /\ UNCHANGED <<stores, clock, joins>>

StartCommand(h) ==
    \E uid \in Requesters, chat_type \in {"private", "supergroup"},
       answer \in Statuses \cup {"raises"} :
        StartCommandOn(h, uid, chat_type, answer, MaxRequests, TRUE)

\* A handler that registers the name before the provider has answered.
CheckQuotaRegistersFirst(h) ==
    /\ pc[h] = "get_invite_count"
    /\ \/ /\ QuotaReached(get_invite_count(user[h]))
          /\ Finish(h, "quota_exceeded", pc[h], fails_gate[h])
          /\ UNCHANGED used_invites
       \/ /\ ~QuotaReached(get_invite_count(user[h]))
          /\ count' = [count EXCEPT ![h] = get_invite_count(user[h])]
          /\ \E token \in Tokens :
                 /\ invite_name' = [invite_name EXCEPT ![h] = InviteName(user[h], token)]
                 /\ used_invites' = register_invite_name(InviteName(user[h], token), user[h])
          /\ provider_calls' = [provider_calls EXCEPT ![h] = @ + 1]
          /\ wrote' = [wrote EXCEPT ![h] = @ \cup {"used_invites"}]
          /\ pc' = [pc EXCEPT ![h] = "create_chat_invite_link"]
          /\ UNCHANGED <<user, fails_gate, last>>
    /\ UNCHANGED <<invite_counts, issue_log, clock, requests, joins>>

\* count = await get_invite_count(user.id); the limit test; the token; and
\* create_chat_invite_link is called.
CheckQuota(h) ==
    /\ pc[h] = "get_invite_count"
    /\ \/ /\ QuotaReached(get_invite_count(user[h]))
          /\ Finish(h, "quota_exceeded", pc[h], fails_gate[h])
       \/ /\ ~QuotaReached(get_invite_count(user[h]))
          /\ count' = [count EXCEPT ![h] = get_invite_count(user[h])]
          /\ \E token \in Tokens :
                 invite_name' = [invite_name EXCEPT ![h] = InviteName(user[h], token)]
          /\ provider_calls' = [provider_calls EXCEPT ![h] = @ + 1]
          /\ pc' = [pc EXCEPT ![h] = "create_chat_invite_link"]
          /\ UNCHANGED <<user, wrote, fails_gate, last>>
    /\ UNCHANGED <<stores, clock, requests, joins>>

\* A handler that sends the link as soon as the provider has returned it.
CreateLinkThenReply(h) ==
    /\ pc[h] = "create_chat_invite_link"
    /\ pc' = [pc EXCEPT ![h] = "reply_text"]
    /\ UNCHANGED <<stores, clock, requests, joins, user, count, invite_name, provider_calls,
                   wrote, fails_gate, last>>

\* create_chat_invite_link returns the link.
CreateLink(h) ==
    /\ pc[h] = "create_chat_invite_link"
    /\ pc' = [pc EXCEPT ![h] = "register_invite_name"]
    /\ UNCHANGED <<stores, clock, requests, joins, user, count, invite_name, provider_calls,
                   wrote, fails_gate, last>>

\* create_chat_invite_link raises: the failure reply, and the handler returns.
CreateLinkRaises(h) ==
    /\ pc[h] = "create_chat_invite_link"
    /\ Finish(h, "provider_failed", pc[h], fails_gate[h])
    /\ UNCHANGED <<stores, clock, requests, joins>>

\* await register_invite_name(invite_name, user.id)
RegisterInvite(h) ==
    /\ pc[h] = "register_invite_name"
    /\ used_invites' = register_invite_name(invite_name[h], user[h])
    /\ wrote' = [wrote EXCEPT ![h] = @ \cup {"used_invites"}]
    /\ pc' = [pc EXCEPT ![h] = "increment_invite_count"]
    /\ UNCHANGED <<invite_counts, issue_log, clock, requests, joins, user, count, invite_name,
                   provider_calls, fails_gate, last>>

\* await increment_invite_count(user.id)
IncrementCount(h) ==
    /\ pc[h] = "increment_invite_count"
    /\ invite_counts' = increment_invite_count(user[h])
    /\ issue_log' = [issue_log EXCEPT ![user[h]] = Append(@, now)]
    /\ wrote' = [wrote EXCEPT ![h] = @ \cup {"invite_counts"}]
    /\ pc' = [pc EXCEPT ![h] = "reply_text"]
    /\ UNCHANGED <<used_invites, clock, requests, joins, user, count, invite_name,
                   provider_calls, fails_gate, last>>

\* The link is sent to the requester.
ReplyLink(h) ==
    /\ pc[h] = "reply_text"
    /\ Finish(h, "issued", pc[h], fails_gate[h])
    /\ UNCHANGED <<stores, clock, requests, joins>>

\* A sqlite call raises (database locked, disk error): nothing is committed by
\* that call and the exception leaves start_command.
StoreRaises(h) ==
    /\ pc[h] \in {"get_invite_count", "register_invite_name", "increment_invite_count"}
    /\ Finish(h, "store_error", pc[h], fails_gate[h])
    /\ UNCHANGED <<stores, clock, requests, joins>>

\* The handler's coroutine is cancelled at the await it is suspended in.
Cancel(h) ==
    /\ InFlight(h)
    /\ Finish(h, "cancelled", pc[h], fails_gate[h])
    /\ UNCHANGED <<stores, clock, requests, joins>>

\* ---------------------------------------------------------------- chat_member_update
\* cmu.invite_link: absent, or a link with a name; the empty name stands for
\* a name that is None or "" (both are skipped by the handler's test).
NoLink == [present |-> FALSE, name |-> NoName]
\* Names of links not made by start_command.
ForeignNames == { <<"p","r","o","m","o">>,
                  <<"r","e","f",":">>,
                  <<"r","e","f",":","a","b","c",":","x">>,
                  <<"r","e","f",":","0",":","x">>,
                  <<"r","e","f",":","1","2",":","m","a","n","u","a","l">> }
\* The links a join can come through: none, an unnamed one, one whose name is
\* in the table used_invites, a foreign one.
JoinLinks == {NoLink} \cup
             {[present |-> TRUE, name |-> n] :
                 n \in {NoName} \cup DOMAIN used_invites \cup ForeignNames}

NoJoin == [handled |-> FALSE, is_join |-> FALSE, link |-> NoLink, referrer_info |-> 0,
           restricted |-> "none", announced |-> "none", referred_by |-> 0,
           restrict_calls |-> 0, send_calls |-> 0,
           tracked |-> FALSE, expired |-> FALSE, issued_to |-> 0, used_before |-> FALSE]

\* A test of the new status alone.
IsJoinTransitionAnyOld(old, new) == new \in {"member", "administrator", "creator"}

\* old in ("left", "kicked") and new in ("member", "administrator", "creator")
IsJoinTransition(old, new) ==
    old \in {"left", "kicked"} /\ new \in {"member", "administrator", "creator"}

\* referrer_info as the handler computes it from cmu.invite_link.
ReferrerInfo(link) ==
    IF link.present /\ link.name # NoName THEN ParseReferrer(link.name) ELSE 0

\* The id named after "Referred by: " (with or without the @username that
\* get_chat may supply), 0 for "Unknown".
ReferredBy(referrer_info) == IF referrer_info # 0 THEN referrer_info ELSE 0

\* A chat-member update arrives; the Application main() builds handles one
\* update at a time.  Without chat_member, or when the transition is no join,
\* the handler returns without a call; else it goes on to read the invite
\* link.
ChatMemberUpdate ==
    \E has_cmu \in BOOLEAN :
    \E old \in IF has_cmu THEN Statuses ELSE {"none"},
       new \in IF has_cmu THEN Statuses ELSE {"none"} :
        /\ jpc = "idle"
        /\ \A h \in Handlers : ~InFlight(h)
        /\ last_join' = [NoJoin EXCEPT
                            !.handled = has_cmu /\ IsJoinTransition(old, new),
                            !.is_join = old \in {"left", "kicked"}
                                        /\ new \in {"member", "administrator", "creator"}]
        /\ jpc' = IF has_cmu /\ IsJoinTransition(old, new) THEN "invite_link" ELSE "idle"
        /\ UNCHANGED <<stores, clock, requests, handler_state, last, attributed>>

\* invite_link_obj = cmu.invite_link; the referrer is parsed from its name;
\* restrict_chat_member is called.
JoinReadLink ==
    \E link \in JoinLinks :
        LET tracked == link.present /\ link.name \in DOMAIN used_invites
        IN /\ jpc = "invite_link"
           /\ last_join' = [last_join EXCEPT
                  !.link = link,
                  !.referrer_info = ReferrerInfo(link),
                  !.tracked = tracked,
                  !.expired = tracked /\ now > used_invites[link.name].created_at
                                               + INVITE_EXPIRE_SECONDS,
                  !.issued_to = IF tracked THEN used_invites[link.name].referrer_id ELSE 0,
                  !.used_before = link.present /\ link.name \in attributed,
                  !.restrict_calls = @ + 1]
           /\ jpc' = "restrict_chat_member"
           /\ UNCHANGED <<stores, clock, requests, handler_state, last, attributed>>

\* A handler that a failed restriction ends.
JoinRestrictFatal ==
    \E result \in {"ok", "failed"} :
        /\ jpc = "restrict_chat_member"
        /\ last_join' = [last_join EXCEPT
                            !.restricted = result,
                            !.send_calls = IF last_join.referrer_info # 0 \/ result = "failed"
                                           THEN @ ELSE @ + 1]
        /\ jpc' = IF result = "failed" THEN "idle"
                  ELSE IF last_join.referrer_info # 0 THEN "get_chat" ELSE "send_message"
        /\ UNCHANGED <<stores, clock, requests, handler_state, last, attributed>>

\* restrict_chat_member returns, or raises (logged); with a referrer get_chat
\* is called next, else send_message.
JoinRestrict ==
    \E result \in {"ok", "failed"} :
        /\ jpc = "restrict_chat_member"
        /\ last_join' = [last_join EXCEPT
                            !.restricted = result,
                            !.send_calls = IF last_join.referrer_info # 0 THEN @ ELSE @ + 1]
        /\ jpc' = IF last_join.referrer_info # 0 THEN "get_chat" ELSE "send_message"
        /\ UNCHANGED <<stores, clock, requests, handler_state, last, attributed>>

\* get_chat answers (with or without a username) or raises: the text names
\* the referrer's id either way.
JoinProfile ==
    /\ jpc = "get_chat"
    /\ last_join' = [last_join EXCEPT
                        !.referred_by = ReferredBy(last_join.referrer_info),
                        !.send_calls = @ + 1]
    /\ jpc' = "send_message"
    /\ UNCHANGED <<stores, clock, requests, handler_state, last, attributed>>

\* send_message returns, or raises (logged); the handler returns.
JoinSend ==
    \E result \in {"sent", "failed"} :
        /\ jpc = "send_message"
        /\ last_join' = [last_join EXCEPT !.announced = result]
        /\ attributed' = IF result = "sent" /\ last_join.referred_by # 0
                         THEN attributed \cup {last_join.link.name} ELSE attributed
        /\ jpc' = "idle"
        /\ UNCHANGED <<stores, clock, requests, handler_state, last>>

\* The handler's coroutine is cancelled at the await it is suspended in.
JoinCancel ==
    /\ jpc \in {"restrict_chat_member", "get_chat", "send_message"}
    /\ last_join' = [last_join EXCEPT
                        !.restricted = IF jpc = "restrict_chat_member" THEN "cancelled" ELSE @,
                        !.announced = "cancelled"]
    /\ jpc' = "idle"
    /\ UNCHANGED <<stores, clock, requests, handler_state, last, attributed>>

\* Time passes.
TickBy(d) ==
    /\ ticks < MaxTicks
    /\ now' = now + d
    /\ ticks' = ticks + 1
    /\ UNCHANGED <<stores, requests, handler_state, last, joins>>

TickDays == TickBy(DaysJump)
TickHour == TickBy(HourJump)

\* ---------------------------------------------------------------- specifications
Init ==
    /\ now = 0
    /\ ticks = 0
    /\ requests = 0
    /\ invite_counts = <<>>
    /\ used_invites = <<>>
    /\ pc = [h \in Handlers |-> "idle"]
    /\ user = [h \in Handlers |-> 0]
    /\ count = [h \in Handlers |-> 0]
    /\ invite_name = [h \in Handlers |-> NoName]
    /\ provider_calls = [h \in Handlers |-> 0]
    /\ wrote = [h \in Handlers |-> {}]
    /\ fails_gate = [h \in Handlers |-> FALSE]
    /\ last = NoRequest
    /\ issue_log = [u \in UserIds |-> <<>>]
    /\ jpc = "idle"
    /\ last_join = NoJoin
    /\ attributed = {}

Step(h) == \/ CheckQuota(h)
           \/ CreateLink(h)
           \/ CreateLinkRaises(h)
           \/ RegisterInvite(h)
           \/ IncrementCount(h)
           \/ ReplyLink(h)
           \/ StoreRaises(h)
           \/ Cancel(h)

\* Spec: the requests of two users, in handlers that may overlap
\* (concurrent_updates, or two processes on one database), within one hour.
Next == \E h \in Handlers : StartCommand(h) \/ Step(h)

Spec == Init /\ [][Next]_vars

\* SpecWeek: one user's requests, handled one at a time, as the Application
\* main() builds dispatches them.
WeekUser == 7

StartCommandWeek(h) ==
    \E chat_type \in {"private", "supergroup"}, answer \in Statuses \cup {"raises"} :
        StartCommandOn(h, WeekUser, chat_type, answer, MaxWeekRequests, FALSE)

NextWeek == \/ \E h \in Handlers : StartCommandWeek(h) \/ Step(h)
            \/ TickDays

SpecWeek == Init /\ [][NextWeek]_vars

\* SpecRace: two requests of one user that overlap, from the state in which
\* WEEKLY_INVITE_LIMIT - 1 invites of the week are recorded for that user;
\* the provider and the database answer every call.
RaceUser == 7

RaceInit ==
    /\ now = 0
    /\ ticks = 0
    /\ requests = 0
    /\ invite_counts = [k \in {<<RaceUser, 2025, 52>>} |-> WEEKLY_INVITE_LIMIT - 1]
    /\ used_invites = [n \in {InviteName(RaceUser, <<"0","a","1","b","2","c","3","d">>)} |->
                          [referrer_id |-> RaceUser, created_at |-> 0]]
    /\ pc = [h \in Handlers |-> "idle"]
    /\ user = [h \in Handlers |-> 0]
    /\ count = [h \in Handlers |-> 0]
    /\ invite_name = [h \in Handlers |-> NoName]
    /\ provider_calls = [h \in Handlers |-> 0]
    /\ wrote = [h \in Handlers |-> {}]
    /\ fails_gate = [h \in Handlers |-> FALSE]
    /\ last = [outcome |-> "issued", at |-> "reply_text",
               fails_gate |-> FALSE, raised |-> FALSE, provider_calls |-> 1,
               wrote |-> {"used_invites", "invite_counts"}]
    /\ issue_log = [u \in UserIds |->
                       IF u = RaceUser THEN [i \in 1..(WEEKLY_INVITE_LIMIT - 1) |-> 0]
                       ELSE <<>>]
    /\ jpc = "idle"
    /\ last_join = NoJoin
    /\ attributed = {}

StartCommandRace(h) == StartCommandOn(h, RaceUser, "private", "member", 2, TRUE)

NextRace == \E h \in Handlers : \/ StartCommandRace(h)
                                \/ CheckQuota(h)
                                \/ CreateLink(h)
                                \/ RegisterInvite(h)
                                \/ IncrementCount(h)
                                \/ ReplyLink(h)

SpecRace == RaceInit /\ [][NextRace]_vars

\* SpecJoin: the chat-member updates, with links issued by requests that are
\* handled one at a time and that the provider and the database answer.
JoinUser == 12

StartCommandJoin(h) ==
    StartCommandOn(h, JoinUser, "private", "member", MaxJoinRequests, FALSE)

NextJoin == \/ \E h \in Handlers : \/ StartCommandJoin(h)
                                  \/ CheckQuota(h)
                                  \/ CreateLink(h)
                                  \/ RegisterInvite(h)
                                  \/ IncrementCount(h)
                                  \/ ReplyLink(h)
            \/ TickHour
            \/ ChatMemberUpdate
            \/ JoinReadLink
            \/ JoinRestrict
            \/ JoinProfile
            \/ JoinSend
            \/ JoinCancel

SpecJoin == Init /\ [][NextJoin]_vars

\* SpecCodec: one link, issued to any of the user ids, and the chat-member
\* updates that come through it or through another link.
StartCommandCodec(h) ==
    \E uid \in UserIds : StartCommandOn(h, uid, "private", "member", 1, FALSE)

NextCodec == \/ \E h \in Handlers : \/ StartCommandCodec(h)
                                   \/ CheckQuota(h)
                                   \/ CreateLink(h)
                                   \/ RegisterInvite(h)
                                   \/ IncrementCount(h)
                                   \/ ReplyLink(h)
             \/ ChatMemberUpdate
             \/ JoinReadLink
             \/ JoinRestrict
             \/ JoinProfile
             \/ JoinSend

SpecCodec == Init /\ [][NextCodec]_vars

\* ---------------------------------------------------------------- properties
\* The issuances recorded for user u in the seven days that end now.
IssuedInWindow(u) ==
    {i \in 1..Len(issue_log[u]) : issue_log[u][i] > now - SecondsPerWeek}

\* The issuances recorded for user u in the ISO week of second t.
IssuedInWeekOf(u, t) ==
    {i \in 1..Len(issue_log[u]) : IsoYearWeek(issue_log[u][i]) = IsoYearWeek(t)}

\* C1: when two overlapping requests of a user who has WEEKLY_INVITE_LIMIT - 1
\* invites recorded have both ended, with the provider and the database
\* answering every call, exactly one of them has been issued a link (the
\* user's recorded issuances are WEEKLY_INVITE_LIMIT) and the other was denied.
C1_ExactlyOneIssued ==
    (requests = 2 /\ \A h \in Handlers : ~InFlight(h))
        => /\ Len(issue_log[RaceUser]) = WEEKLY_INVITE_LIMIT
           /\ get_invite_count(RaceUser) = WEEKLY_INVITE_LIMIT

C3_NoWriteBeforeProvider ==
    /\ \A h \in Handlers :
           pc[h] \in {"get_invite_count", "create_chat_invite_link"} => wrote[h] = {}
    /\ last.outcome = "provider_failed" => last.wrote = {}
    /\ (last.outcome = "cancelled"
        /\ last.at \in {"get_invite_count", "create_chat_invite_link"}) => last.wrote = {}

\* C3 happens: a request's provider call has failed while the tables hold the
\* rows of an earlier issuance.
C3_ProviderFailed ==
    /\ last.outcome = "provider_failed"
    /\ last.provider_calls = 1
    /\ DOMAIN used_invites # {}
    /\ DOMAIN invite_counts # {}

\* C4: a join through a registered invite name for which an earlier
\* announcement has already named the referrer is announced with the referrer
\* unknown.
C4_SecondJoinUnknown ==
    (last_join.tracked /\ last_join.used_before /\ last_join.announced = "sent")
        => last_join.referred_by = 0

\* C5: a join that arrives through a registered invite name later than
\* created_at + INVITE_EXPIRE_SECONDS is still restricted and announced, and
\* its announcement names no referrer.
C5_ExpiredJoinUnknown ==
    (last_join.expired /\ last_join.announced = "sent")
        => /\ last_join.restricted \in {"ok", "failed"}
           /\ last_join.referred_by = 0

\* C6: a request that ended because a database call raised has written
\* neither table.
C6_StoreFailureLeavesNothing ==
    last.outcome = "store_error" => last.wrote = {}

\* C7: no handler goes on past the membership test with a status that is no
\* membership; the request with such a status is denied as not a member, has
\* made no provider call and has written neither table.
C7_NonMemberDenied ==
    /\ \A h \in Handlers : ~fails_gate[h]
    /\ last.fails_gate => /\ last.outcome = "not_member"
                          /\ last.provider_calls = 0
                          /\ last.wrote = {}

\* C7 happens: a non-member has been denied while the tables hold the rows of
\* an earlier issuance.
C7_Denied ==
    /\ last.fails_gate
    /\ last.outcome = "not_member"
    /\ DOMAIN used_invites # {}
    /\ DOMAIN invite_counts # {}

\* C8: the referrer parsed from the name start_command builds for user x is
\* x, for the name a handler holds and for every name in used_invites; and a
\* join through a registered name is announced as referred by the user the
\* link was issued to.
C8_RoundTrip ==
    /\ \A h \in Handlers :
           invite_name[h] # NoName => ParseReferrer(invite_name[h]) = user[h]
    /\ \A n \in DOMAIN used_invites : ParseReferrer(n) = used_invites[n].referrer_id
    /\ (last_join.tracked /\ last_join.announced = "sent")
           => last_join.referred_by = last_join.issued_to

\* C8 happens: a join through the link issued to the user with the largest id
\* has been announced as referred by that user.
C8_Announced ==
    /\ last_join.tracked
    /\ last_join.announced = "sent"
    /\ last_join.issued_to = 2147483647
    /\ last_join.referred_by = 2147483647

\* C9: a handler about to register an invite name that used_invites already
\* holds leaves the table as it is and does not go on to the quota increment.
C9_ExistingNameRejected ==
    [][\A h \in Handlers :
           (pc[h] = "register_invite_name" /\ invite_name[h] \in DOMAIN used_invites)
               => (used_invites' = used_invites /\ pc'[h] # "increment_invite_count")]_vars

\* C10: for every user, get_invite_count is at most the number of issuances
\* recorded for the user in the seven days that end now.
C10_CountWithinWindow ==
    \A u \in UserIds : get_invite_count(u) <= Cardinality(IssuedInWindow(u))

\* C11: a join whose restrict_chat_member failed, and whose handler was not
\* cancelled, has had its announcement sent to send_message, and the referrer
\* it names is the one parsed from the link, as after a restriction that
\* succeeded.
C11_RestrictFailureNonFatal ==
    /\ (jpc = "idle" /\ last_join.restricted = "failed" /\ last_join.announced # "cancelled")
           => last_join.announced \in {"sent", "failed"}
    /\ (last_join.restricted \in {"ok", "failed"} /\ last_join.announced \in {"sent", "failed"})
           => last_join.referred_by = ReferredBy(ReferrerInfo(last_join.link))

\* C11 happens: after a failed restriction the announcement has been sent and
\* names the referrer.
C11_AnnouncedAfterFailure ==
    /\ last_join.tracked
    /\ last_join.restricted = "failed"
    /\ last_join.announced = "sent"
    /\ last_join.referred_by = JoinUser

\* C12: a join through a link whose name has no row in used_invites is
\* announced with the referrer unknown.
C12_UntrackedUnknown ==
    (last_join.link.present /\ last_join.link.name # NoName /\ ~last_join.tracked
     /\ last_join.announced = "sent")
        => last_join.referred_by = 0

\* The referrer field of a name that starts with "ref:": what stands between
\* the prefix and the next colon (or the end).
RefField(name) ==
    LET rest == SubSeq(name, 5, Len(name))
        stop == IF \E i \in 1..Len(rest) : rest[i] = ":"
                THEN CHOOSE i \in 1..Len(rest) :
                         rest[i] = ":" /\ \A j \in 1..(i - 1) : rest[j] # ":"
                ELSE Len(rest) + 1
    IN SubSeq(rest, 1, stop - 1)

\* A link the codec of start_command has not named: no link or no name, a
\* name without the prefix "ref:", or a referrer field that is empty or has a
\* character that no integer is written with.
NonCodecLink(link) ==
    \/ ~link.present
    \/ link.name = NoName
    \/ ~StartsWith(link.name, <<"r","e","f",":">>)
    \/ RefField(link.name) = <<>>
    \/ \E i \in 1..Len(RefField(link.name)) :
           ~IsDigit(RefField(link.name)[i])
           /\ RefField(link.name)[i] \notin {"+", "-", "_", " "}

\* C13: a join through a link the codec has not named, whose handler ran to
\* its end, has been restricted (the call was made) and announced (the call
\* was made) with no referrer, the parse giving none.
C13_NonCodecNameUnknown ==
    (jpc = "idle" /\ last_join.handled /\ NonCodecLink(last_join.link)
     /\ last_join.announced # "cancelled")
        => /\ last_join.restricted \in {"ok", "failed"}
           /\ last_join.announced \in {"sent", "failed"}
           /\ last_join.referrer_info = 0
           /\ last_join.referred_by = 0

\* C13 happens: a join through the link named ref:abc:x has been restricted
\* and announced.
C13_MalformedFieldAnnounced ==
    /\ last_join.link = [present |-> TRUE, name |-> <<"r","e","f",":","a","b","c",":","x">>]
    /\ last_join.restricted = "ok"
    /\ last_join.announced = "sent"
    /\ last_join.referred_by = 0

\* C14: every request in a private chat that has ended without being
\* cancelled has had one of the replies sent to the requester: the link, a
\* denial or a failure message.
C14_EndsWithReply ==
    last.outcome \notin {"none", "ignored", "cancelled"}
        => Reply(last.outcome) \in {"link", "denied", "failed"}

\* C15: the invite name a handler builds equals no name built before it:
\* none that used_invites holds and none that another handler holds.
C15_NamesNeverEqual ==
    [][\A h \in Handlers :
           (invite_name[h] = NoName /\ invite_name'[h] # NoName)
               => /\ invite_name'[h] \notin DOMAIN used_invites
                  /\ \A g \in Handlers \ {h} : invite_name[g] # invite_name'[h]]_vars

\* C16: a request for which get_chat_member raised ends with the failure
\* message, one whose answered status is no membership ends with the denial,
\* a different reply; both end at get_chat_member, with no provider call made
\* and neither table written.
C16_ErrorAndNonMemberDistinct ==
    /\ last.raised => /\ last.outcome = "membership_error"
                      /\ Reply(last.outcome) = "failed"
    /\ last.fails_gate => /\ last.outcome = "not_member"
                          /\ Reply(last.outcome) = "denied"
    /\ (last.raised \/ last.fails_gate) => /\ last.at = "get_chat_member"
                                            /\ last.provider_calls = 0
                                            /\ last.wrote = {}

\* C16 happens: get_chat_member has raised for a request while the tables
\* hold the rows of an earlier issuance.
C16_MembershipCheckRaised ==
    /\ last.raised
    /\ last.outcome = "membership_error"
    /\ DOMAIN used_invites # {}
    /\ DOMAIN invite_counts # {}

\* C17: with requests that overlap, the count stored for every key
\* (user, ISO year, ISO week) is the number of increment_invite_count calls
\* completed for that user in that week, and a user with a completed call has
\* the row.
C17_CounterCountsIncrements ==
    /\ \A k \in DOMAIN invite_counts :
           invite_counts[k] =
               Cardinality({i \in 1..Len(issue_log[k[1]]) :
                               IsoYearWeek(issue_log[k[1]][i]) = <<k[2], k[3]>>})
    /\ \A u \in UserIds : \A i \in 1..Len(issue_log[u]) :
           <<u, IsoYearWeek(issue_log[u][i])[1], IsoYearWeek(issue_log[u][i])[2]>>
               \in DOMAIN invite_counts

\* C17 happens: two handlers that overlapped have both incremented the row of
\* one user, which stands above the weekly limit with no increment lost.
C17_OverlappingIncrements ==
    \E u \in Requesters :
        /\ get_invite_count(u) = WEEKLY_INVITE_LIMIT + 1
        /\ Len(issue_log[u]) = WEEKLY_INVITE_LIMIT + 1

\* C18: for an update that is no transition from left or kicked to member,
\* administrator or creator, restrict_chat_member and send_message are not
\* called; for one that is, each is called at most once, and exactly once
\* when the handler has run to its end.
C18_OnlyJoinsTrigger ==
    /\ ~last_join.is_join => /\ last_join.restrict_calls = 0
                             /\ last_join.send_calls = 0
                             /\ last_join.restricted = "none"
                             /\ last_join.announced = "none"
                             /\ jpc = "idle"
    /\ last_join.restrict_calls <= 1
    /\ last_join.send_calls <= 1
    /\ (last_join.is_join /\ jpc = "idle" /\ last_join.announced # "cancelled")
           => /\ last_join.restrict_calls = 1
              /\ last_join.send_calls = 1

\* C18 happens: a join has been handled to its end, with one restriction and
\* one announcement.
C18_JoinHandledOnce ==
    /\ last_join.is_join
    /\ jpc = "idle"
    /\ last_join.restricted = "ok"
    /\ last_join.announced = "sent"
    /\ last_join.restrict_calls = 1
    /\ last_join.send_calls = 1

\* C19: a handler that is about to send the link, and the request that has
\* been sent it, has written both tables; while the link is being sent,
\* used_invites holds its name with the requester as referrer and the
\* requester's count is at least 1.
C19_DeliveredAfterCharged ==
    /\ \A h \in Handlers :
           pc[h] = "reply_text"
               => /\ wrote[h] = {"used_invites", "invite_counts"}
                  /\ invite_name[h] \in DOMAIN used_invites
                  /\ used_invites[invite_name[h]].referrer_id = user[h]
                  /\ get_invite_count(user[h]) >= 1
    /\ last.outcome = "issued" => last.wrote = {"used_invites", "invite_counts"}

\* C19 happens: a link has been delivered.
C19_Delivered ==
    /\ last.outcome = "issued"
    /\ Reply(last.outcome) = "link"
    /\ last.provider_calls = 1

\* C10 happens: the count is positive while an issuance older than seven days
\* is on record and is not counted.
C10_OldIssuanceNotCounted ==
    /\ get_invite_count(WeekUser) >= 1
    /\ \E i \in 1..Len(issue_log[WeekUser]) : issue_log[WeekUser][i] <= now - SecondsPerWeek
    /\ get_invite_count(WeekUser) < Len(issue_log[WeekUser])

====
